---- MODULE Spec2Model ----
(***************************************************************************)
(* Model of building_map_server.py: BuildingMapServer translates a loaded  *)
(* Building into one BuildingMap message (building_map_msg, level_msg,     *)
(* lift_msg), then registers the get_building_map service, creates the     *)
(* 'map' publisher (keep last 1, reliable, transient local), publishes the *)
(* message once and spins.                                                 *)
(*                                                                         *)
(* Python values are modelled as follows: a str that the code splits is a  *)
(* sequence of one-character strings; an optional object is a sequence of  *)
(* length 0 or 1; a raised exception is a non-empty err field.             *)
(***************************************************************************)
EXTENDS Integers, Sequences, FiniteSets, TLC

\* ------------------------------------------------------------------ bounds
MaxLevels == 2
MaxLifts == 2
MaxVertices == 2
MaxDoors == 2
MaxLanes == 2
MaxFetch == 2
MaxSubs == 2

\* ------------------------------------------------ Python built-ins the code uses

\* range(0, 9): the graph indices level_msg asks for
GraphRange == 0..8

DigitChar(d) ==
    CASE d = 0 -> "0" [] d = 1 -> "1" [] d = 2 -> "2" [] d = 3 -> "3"
      [] d = 4 -> "4" [] d = 5 -> "5" [] d = 6 -> "6" [] d = 7 -> "7"
      [] d = 8 -> "8" [] OTHER -> "9"

\* str(i) for a non-negative int: its decimal digits
RECURSIVE str(_)
str(i) == IF i < 10 THEN DigitChar(i) ELSE str(i \div 10) \o DigitChar(i % 10)

\* list[idx] with an index past the end clamped to the last element
getitem_clamped(list, idx) ==
    IF Len(list) = 0 \/ idx < -Len(list)
    THEN [err |-> "IndexError", value |-> [x |-> 0, y |-> 0]]
    ELSE [err |-> "",
          value |-> IF idx >= Len(list) THEN list[Len(list)]
                    ELSE IF idx >= 0 THEN list[idx + 1]
                    ELSE list[Len(list) + idx + 1]]

\* list[idx]: IndexError outside -len..len-1; inside, a negative index counts
\* from the end of the list
getitem(list, idx) ==
    IF idx >= Len(list) \/ idx < -Len(list)
    THEN [err |-> "IndexError", value |-> [x |-> 0, y |-> 0]]
    ELSE [err |-> "",
          value |-> IF idx >= 0 THEN list[idx + 1] ELSE list[Len(list) + idx + 1]]

\* s.split('.'): the pieces of s between the dots (always at least one piece)
RECURSIVE split(_, _)
split(s, sep) ==
    IF \A i \in 1..Len(s) : s[i] # sep
    THEN <<s>>
    ELSE LET i == CHOOSE i \in 1..Len(s) :
                      s[i] = sep /\ \A j \in 1..(i - 1) : s[j] # sep
         IN <<SubSeq(s, 1, i - 1)>> \o split(SubSeq(s, i + 1, Len(s)), sep)

\* float(v) on a str: the strings that parse, with their values
FloatTable == [s \in {"90", "-45"} |-> IF s = "90" THEN 90 ELSE -45]

\* ------------------------------------------------------ the filesystem
\* image files that open(image_path, 'rb') can read, and what read() returns
ReadableFiles == { <<"a", ".", "p", "n", "g">>,
                   <<"f", ".", "P", "N", "G">>,
                   <<"c", ".", "t", ".", "g", "z">>,
                   <<"n", "o", "e", "x", "t">>,
                   <<"d", ".">> }

FileData(image_filename) == <<"bytes of">> \o image_filename

\* ------------------------------------------------------ message defaults
\* Door(): a default-constructed message
Door0 == [door_name |-> "", v1_x |-> 0, v1_y |-> 0, v2_x |-> 0, v2_y |-> 0,
          motion_range |-> 0, motion_direction |-> 0,
          door_type |-> "DOOR_TYPE_UNDEFINED"]

\* Level(): a default-constructed message
Level0 == [name |-> "", elevation |-> 0, images |-> <<>>, doors |-> <<>>,
           nav_graphs |-> <<>>]

\* BuildingMap(): a default-constructed message
BuildingMap0 == [name |-> "", levels |-> <<>>, lifts |-> <<>>]

\* ------------------------------------------------------ translation

\* the chain with the final else falling into the branch before it
door_type_of_no_default(door_type) ==
    IF door_type = "sliding" THEN "DOOR_TYPE_SINGLE_SLIDING"
    ELSE IF door_type = "hinged" THEN "DOOR_TYPE_SINGLE_SWING"
    ELSE IF door_type = "double_sliding" THEN "DOOR_TYPE_DOUBLE_SLIDING"
    ELSE "DOOR_TYPE_DOUBLE_SWING"

\* the if/elif chain on door.params['type'].value
door_type_of(door_type) ==
    IF door_type = "sliding" THEN "DOOR_TYPE_SINGLE_SLIDING"
    ELSE IF door_type = "hinged" THEN "DOOR_TYPE_SINGLE_SWING"
    ELSE IF door_type = "double_sliding" THEN "DOOR_TYPE_DOUBLE_SLIDING"
    ELSE IF door_type = "double_hinged" THEN "DOOR_TYPE_DOUBLE_SWING"
    ELSE "DOOR_TYPE_UNDEFINED"

\* one pass of the body of "for door in level.doors": the first statement
\* that raises decides err, otherwise door is the appended Door message
door_msg(level, door) ==
    LET p == door.params
        v1 == getitem(level.vertices, door.start_idx)
        v2 == getitem(level.vertices, door.end_idx)
        raise(e) == [err |-> e, door |-> Door0]
    IN  IF "name" \notin DOMAIN p THEN raise("KeyError")
        ELSE IF v1.err # "" THEN raise(v1.err)
        ELSE IF v2.err # "" THEN raise(v2.err)
        ELSE IF "motion_degrees" \notin DOMAIN p THEN raise("KeyError")
        ELSE IF p.motion_degrees \notin DOMAIN FloatTable THEN raise("ValueError")
        ELSE IF "motion_direction" \notin DOMAIN p THEN raise("KeyError")
        ELSE IF "type" \notin DOMAIN p THEN raise("KeyError")
        ELSE [err |-> "",
              door |-> [door_name |-> p.name,
                        v1_x |-> v1.value.x,
                        v1_y |-> v1.value.y,
                        v2_x |-> v2.value.x,
                        v2_y |-> v2.value.y,
                        motion_range |-> FloatTable[p.motion_degrees],
                        motion_direction |-> p.motion_direction,
                        door_type |-> door_type_of(p.type)]]

\* the loop over level.doors from the j-th door on
RECURSIVE door_msgs(_, _)
door_msgs(level, j) ==
    IF j > Len(level.doors)
    THEN [err |-> "", doors |-> <<>>]
    ELSE LET r == door_msg(level, level.doors[j])
         IN IF r.err # ""
            THEN [err |-> r.err, doors |-> <<>>]
            ELSE LET rest == door_msgs(level, j + 1)
                 IN IF rest.err # ""
                    THEN rest
                    ELSE [err |-> "", doors |-> <<r.door>> \o rest.doors]

\* the block with split('.')[0] in place of split('.')[-1]
image_msgs_first_piece(level) ==
    IF level.drawing_name = <<>>
    THEN [err |-> "", images |-> <<>>]
    ELSE LET image_filename == level.drawing_name
             pieces == split(image_filename, ".")
         IN IF image_filename \notin ReadableFiles
            THEN [err |-> "FileNotFoundError", images |-> <<>>]
            ELSE [err |-> "",
                  images |-> << [encoding |-> pieces[1],
                                 scale |-> level.transform.scale,
                                 x_offset |-> level.transform.translation[1],
                                 y_offset |-> level.transform.translation[2],
                                 yaw |-> level.transform.rotation,
                                 data |-> FileData(image_filename)] >>]

\* the "if level.drawing_name:" block
image_msgs(level) ==
    IF level.drawing_name = <<>>
    THEN [err |-> "", images |-> <<>>]
    ELSE LET image_filename == level.drawing_name
             pieces == split(image_filename, ".")
         IN IF image_filename \notin ReadableFiles
            THEN [err |-> "FileNotFoundError", images |-> <<>>]
            ELSE [err |-> "",
                  images |-> << [encoding |-> pieces[Len(pieces)],
                                 scale |-> level.transform.scale,
                                 x_offset |-> level.transform.translation[1],
                                 y_offset |-> level.transform.translation[2],
                                 yaw |-> level.transform.rotation,
                                 data |-> FileData(image_filename)] >>]

\* level.generate_nav_graph(i, always_unidirectional=False)
generate_nav_graph(level, i) == level.nav_graphs[i]

\* one Graph message from a generated graph with lanes
graph_msg(i, g) ==
    [name |-> str(i),
     vertices |-> [n \in 1..Len(g.vertices) |->
                     [x |-> g.vertices[n][1], y |-> g.vertices[n][2],
                      name |-> g.vertices[n][3].name]],
     edges |-> [n \in 1..Len(g.lanes) |->
                  [v1_idx |-> g.lanes[n][1], v2_idx |-> g.lanes[n][2],
                   edge_type |-> IF g.lanes[n][3].is_bidirectional
                                 THEN "EDGE_TYPE_BIDIRECTIONAL"
                                 ELSE "EDGE_TYPE_UNIDIRECTIONAL"]]]

\* the loop without the "continue" on an empty lane list
RECURSIVE nav_graph_msgs_no_skip(_, _)
nav_graph_msgs_no_skip(level, i) ==
    IF i \notin GraphRange
    THEN <<>>
    ELSE <<graph_msg(i, generate_nav_graph(level, i))>>
            \o nav_graph_msgs_no_skip(level, i + 1)

\* the loop "for i in range(0, 9)" from index i on
RECURSIVE nav_graph_msgs(_, _)
nav_graph_msgs(level, i) ==
    IF i \notin GraphRange
    THEN <<>>
    ELSE LET g == generate_nav_graph(level, i)
         IN IF g.lanes = <<>>
            THEN nav_graph_msgs(level, i + 1)
            ELSE <<graph_msg(i, g)>> \o nav_graph_msgs(level, i + 1)

\* level_msg: err is the exception that leaves it, msg the returned Level
level_msg(level) ==
    LET im == image_msgs(level)
        dm == door_msgs(level, 1)
    IN  IF im.err # "" THEN [err |-> im.err, msg |-> Level0]
        ELSE IF dm.err # "" THEN [err |-> dm.err, msg |-> Level0]
        ELSE [err |-> "",
              msg |-> [name |-> level.name,
                       elevation |-> level.elevation,
                       images |-> im.images,
                       doors |-> dm.doors,
                       nav_graphs |-> nav_graph_msgs(level, 0)]]

lift_msg(lift) ==
    [name |-> lift.name, levels |-> lift.level_names,
     ref_x |-> lift.x, ref_y |-> lift.y, ref_yaw |-> lift.yaw,
     width |-> lift.width, depth |-> lift.depth]

\* building_map_msg run to completion on a building none of whose levels raises
building_map_msg(b) ==
    [name |-> b.name,
     levels |-> [i \in 1..Len(b.levels) |-> level_msg(b.levels[i]).msg],
     lifts |-> [i \in 1..Len(b.lifts) |-> lift_msg(b.lifts[i])]]

\* get_building_map honouring the request: images only when asked for
get_building_map_filtered(request, held) ==
    [building_map |->
        IF request = "images_only" THEN [held EXCEPT !.lifts = <<>>] ELSE held]

\* get_building_map(request, response): the response it returns
get_building_map(request, held) == [building_map |-> held]

\* the profile with the default (volatile) durability
qos_volatile == [history |-> "KEEP_LAST", depth |-> 1,
                 reliability |-> "RELIABLE", durability |-> "VOLATILE"]

\* the QoSProfile of the 'map' publisher
qos == [history |-> "KEEP_LAST", depth |-> 1,
        reliability |-> "RELIABLE", durability |-> "TRANSIENT_LOCAL"]

\* ------------------------------------------------------ input buildings
SeqsUpTo(S, n) == UNION { [1..k -> S] : k \in 0..n }

InjSeqsUpTo(S, n) ==
    { q \in SeqsUpTo(S, n) : \A i, j \in 1..Len(q) : q[i].name = q[j].name => i = j }

\* level.vertices of a level with n vertices; every vertex has its own coordinates
Vertices(n) == [i \in 1..n |-> [x |-> 10 * i, y |-> 10 * i + 1]]

Transform0 == [scale |-> 5, translation |-> <<3, 4>>, rotation |-> 1]

NoGraphs == [k \in GraphRange |-> [vertices |-> <<>>, lanes |-> <<>>]]

GraphVertices == << <<0, 0, [name |-> "wp"]>>, <<7, 0, [name |-> ""]>> >>

\* what generate_nav_graph returns per index for a level whose lanes, in
\* order, are tl: pairs <<graph index, is_bidirectional>>
NavGraphsOf(tl) ==
    [k \in GraphRange |->
        LET ls == SelectSeq(tl, LAMBDA t : t[1] = k)
        IN [vertices |-> IF ls = <<>> THEN <<>> ELSE GraphVertices,
            lanes |-> [n \in 1..Len(ls) |->
                         <<n - 1, n % 2, [is_bidirectional |-> ls[n][2]]>>]]]

MkLevel(name, elevation, drawing_name, nv, doors, nav_graphs) ==
    [name |-> name, elevation |-> elevation, drawing_name |-> drawing_name,
     transform |-> Transform0, vertices |-> Vertices(nv), doors |-> doors,
     nav_graphs |-> nav_graphs]

GoodParams(type) ==
    [name |-> "door", motion_degrees |-> "90", motion_direction |-> 1,
     type |-> type]

Without(p, key) == [k \in DOMAIN p \ {key} |-> p[k]]

MkDoor(start_idx, end_idx, params) ==
    [start_idx |-> start_idx, end_idx |-> end_idx, params |-> params]

DoorTypes == {"sliding", "hinged", "double_sliding", "double_hinged", "foo",
              "Sliding", ""}

ParamKeys == {"name", "motion_degrees", "motion_direction", "type"}

\* parameter bags: every type string, each key missing, an unparsable number
ParamBags ==
    { GoodParams(t) : t \in DoorTypes }
    \cup { Without(GoodParams("hinged"), k) : k \in ParamKeys }
    \cup { [GoodParams("hinged") EXCEPT !.motion_degrees = "abc"],
           [GoodParams("sliding") EXCEPT !.motion_degrees = "-45",
                                         !.motion_direction = -1] }

IdxRange == -(MaxVertices + 1)..(MaxVertices + 1)

\* doors: every pair of indices around the vertex list, every parameter bag
Doors ==
    { MkDoor(s, e, GoodParams("hinged")) : s, e \in IdxRange }
    \cup { MkDoor(0, 0, p) : p \in ParamBags }

LeadingDoors == { MkDoor(0, 0, GoodParams("sliding")),
                  MkDoor(0, 0, GoodParams("double_hinged")) }

\* door lists: valid doors followed by at most one door of Doors
DoorLists ==
    { pre \o fin : pre \in SeqsUpTo(LeadingDoors, MaxDoors - 1),
                   fin \in {<<>>} \cup { <<d>> : d \in Doors } }

DrawingNames == ReadableFiles \cup { <<"g", "o", "n", "e", ".", "p", "n", "g">> }

\* levels that differ in their doors
DoorLevels ==
    { MkLevel("L1", 0, <<>>, nv, ds, NoGraphs) :
        nv \in 0..MaxVertices, ds \in DoorLists }

\* levels that differ in their navigation graphs
GraphLevels ==
    { MkLevel("L1", 0, <<>>, 2, <<>>, NavGraphsOf(tl)) :
        tl \in SeqsUpTo(GraphRange \X BOOLEAN, MaxLanes) }

\* levels that differ in their floor plan
ImageLevels ==
    { MkLevel("L1", 0, d, 2, <<>>, NoGraphs) : d \in DrawingNames }

\* levels of the multi-level buildings: plain, complete, two that fail
SomeLevels ==
    { MkLevel("B1", -3, <<>>, 0, <<>>, NoGraphs),
      MkLevel("L1", 0, <<"f", ".", "P", "N", "G">>, 2,
              <<MkDoor(0, 1, GoodParams("hinged"))>>,
              NavGraphsOf(<< <<0, TRUE>> >>)),
      MkLevel("L2", 4, <<"g", "o", "n", "e", ".", "p", "n", "g">>, 2,
              <<>>, NoGraphs),
      MkLevel("L3", 8, <<>>, 2,
              <<MkDoor(0, 1, GoodParams("sliding")),
                MkDoor(1, 2, GoodParams("sliding"))>>, NoGraphs) }

SomeLifts ==
    { [name |-> n, level_names |-> <<"B1", "L1">>, x |-> 1, y |-> 2,
       yaw |-> 0, width |-> 2, depth |-> 3] : n \in {"lift1", "lift2", "lift3"} }

MkBuilding(levels, lifts) == [name |-> "building", levels |-> levels, lifts |-> lifts]

\* the buildings the map file may describe; building.levels and building.lifts
\* are dicts, given as the sequence of their values in insertion order
Buildings ==
    { MkBuilding(ls, lf) : ls \in InjSeqsUpTo(SomeLevels, MaxLevels),
                           lf \in InjSeqsUpTo(SomeLifts, MaxLifts) }
    \cup { MkBuilding(<<l>>, <<>>) : l \in DoorLevels \cup GraphLevels \cup ImageLevels }

\* request payloads of get_building_map
Requests == {"empty", "images_only"}

\* ------------------------------------------------------ state
VARIABLES
    map_file,              \* the document at map_path: <<>> when no such file
    pc,                    \* where main / __init__ stands
    building,              \* self.building
    msg,                   \* the local msg of building_map_msg
    err,                   \* the exception that ended startup, "" if none
    map_msg,               \* self.map_msg
    get_building_map_srv,  \* the service is registered
    building_map_pub,      \* self.building_map_pub: the QoS it was created with
    retained,              \* samples the publisher keeps for late joiners
    npublish,              \* number of publish calls made
    subs,                  \* subscriptions to 'map': when made, what received
    responses              \* responses the service has returned

vars == <<map_file, pc, building, msg, err, map_msg, get_building_map_srv,
          building_map_pub, retained, npublish, subs, responses>>

Init ==
    /\ map_file \in {<<>>} \cup { <<b>> : b \in Buildings }
    /\ pc = "load"
    /\ building = <<>>
    /\ msg = BuildingMap0
    /\ err = ""
    /\ map_msg = <<>>
    /\ get_building_map_srv = FALSE
    /\ building_map_pub = <<>>
    /\ retained = <<>>
    /\ npublish = 0
    /\ subs = <<>>
    /\ responses = <<>>

\* __init__ up to self.building: isfile check, open, Building(yaml)
LoadMap ==
    /\ pc = "load"
    /\ IF map_file = <<>>
       THEN /\ pc' = "failed"
            /\ err' = "FileNotFoundError"
            /\ UNCHANGED building
       ELSE /\ pc' = "build"
            /\ building' = map_file
            /\ UNCHANGED err
    /\ UNCHANGED <<map_file, msg, map_msg, get_building_map_srv,
                   building_map_pub, retained, npublish, subs, responses>>

\* building_map_msg: msg = BuildingMap(); msg.name = building.name
BuildBegin ==
    /\ pc = "build"
    /\ msg' = [BuildingMap0 EXCEPT !.name = building[1].name]
    /\ pc' = "levels"
    /\ UNCHANGED <<map_file, building, err, map_msg, get_building_map_srv,
                   building_map_pub, retained, npublish, subs, responses>>

\* the pass with the exception of level_msg swallowed: the level is left empty
LevelStepSwallow ==
    /\ pc = "levels"
    /\ Len(msg.levels) < Len(building[1].levels)
    /\ msg' = [msg EXCEPT !.levels =
                 Append(@, level_msg(building[1].levels[Len(msg.levels) + 1]).msg)]
    /\ UNCHANGED <<map_file, pc, building, err, map_msg, get_building_map_srv,
                   building_map_pub, retained, npublish, subs, responses>>

\* the pass with insert(0, ...) in place of append(...)
LevelStepPrepend ==
    /\ pc = "levels"
    /\ Len(msg.levels) < Len(building[1].levels)
    /\ LET r == level_msg(building[1].levels[Len(msg.levels) + 1])
       IN IF r.err # ""
          THEN /\ pc' = "failed"
               /\ err' = r.err
               /\ UNCHANGED msg
          ELSE /\ msg' = [msg EXCEPT !.levels = <<r.msg>> \o @]
               /\ UNCHANGED <<pc, err>>
    /\ UNCHANGED <<map_file, building, map_msg, get_building_map_srv,
                   building_map_pub, retained, npublish, subs, responses>>

\* one pass of "for _, level_data in building.levels.items()"
LevelStep ==
    /\ pc = "levels"
    /\ Len(msg.levels) < Len(building[1].levels)
    /\ LET r == level_msg(building[1].levels[Len(msg.levels) + 1])
       IN IF r.err # ""
          THEN /\ pc' = "failed"
               /\ err' = r.err
               /\ UNCHANGED msg
          ELSE /\ msg' = [msg EXCEPT !.levels = Append(@, r.msg)]
               /\ UNCHANGED <<pc, err>>
    /\ UNCHANGED <<map_file, building, map_msg, get_building_map_srv,
                   building_map_pub, retained, npublish, subs, responses>>

\* one pass of "for _, lift_data in building.lifts.items()"
LiftStep ==
    /\ pc = "levels"
    /\ Len(msg.levels) = Len(building[1].levels)
    /\ Len(msg.lifts) < Len(building[1].lifts)
    /\ msg' = [msg EXCEPT !.lifts =
                 Append(@, lift_msg(building[1].lifts[Len(msg.lifts) + 1]))]
    /\ UNCHANGED <<map_file, pc, building, err, map_msg, get_building_map_srv,
                   building_map_pub, retained, npublish, subs, responses>>

\* the return taken before the loop over the lifts has finished
BuildReturnBeforeLifts ==
    /\ pc = "levels"
    /\ Len(msg.levels) = Len(building[1].levels)
    /\ map_msg' = <<msg>>
    /\ pc' = "create_service"
    /\ UNCHANGED <<map_file, building, msg, err, get_building_map_srv,
                   building_map_pub, retained, npublish, subs, responses>>

\* return msg; self.map_msg = ...
BuildReturn ==
    /\ pc = "levels"
    /\ Len(msg.levels) = Len(building[1].levels)
    /\ Len(msg.lifts) = Len(building[1].lifts)
    /\ map_msg' = <<msg>>
    /\ pc' = "create_service"
    /\ UNCHANGED <<map_file, building, msg, err, get_building_map_srv,
                   building_map_pub, retained, npublish, subs, responses>>

\* self.get_building_map_srv = self.create_service(...)
CreateService ==
    /\ pc = "create_service"
    /\ get_building_map_srv' = TRUE
    /\ pc' = "create_publisher"
    /\ UNCHANGED <<map_file, building, msg, err, map_msg, building_map_pub,
                   retained, npublish, subs, responses>>

\* self.building_map_pub = self.create_publisher(BuildingMap, 'map', qos)
CreatePublisher ==
    /\ pc = "create_publisher"
    /\ building_map_pub' = <<qos>>
    /\ pc' = "publish"
    /\ UNCHANGED <<map_file, building, msg, err, map_msg, get_building_map_srv,
                   retained, npublish, subs, responses>>

\* the last n elements of a sequence
LastN(q, n) == IF Len(q) <= n THEN q ELSE SubSeq(q, Len(q) - n + 1, Len(q))

\* self.building_map_pub.publish(self.map_msg), then __init__ returns and
\* main enters rclpy.spin. Every current subscription receives the sample; a
\* transient-local publisher keeps the last depth samples.
Publish ==
    /\ pc = "publish"
    /\ npublish' = npublish + 1
    /\ retained' = IF building_map_pub[1].durability = "TRANSIENT_LOCAL"
                   THEN LastN(Append(retained, map_msg[1]), building_map_pub[1].depth)
                   ELSE <<>>
    /\ subs' = [i \in 1..Len(subs) |->
                  [subs[i] EXCEPT !.received = Append(@, map_msg[1])]]
    /\ pc' = "spin"
    /\ UNCHANGED <<map_file, building, msg, err, map_msg, get_building_map_srv,
                   building_map_pub, responses>>

\* a client calls get_building_map while the node spins
Fetch ==
    /\ pc = "spin"
    /\ get_building_map_srv
    /\ Len(responses) < MaxFetch
    /\ \E request \in Requests :
          responses' = Append(responses, get_building_map(request, map_msg[1]))
    /\ UNCHANGED <<map_file, pc, building, msg, err, map_msg,
                   get_building_map_srv, building_map_pub, retained, npublish,
                   subs>>

\* a consumer subscribes to 'map'; a late joiner is sent what the publisher
\* retained
Subscribe ==
    /\ Len(subs) < MaxSubs
    /\ subs' = Append(subs, [after_publish |-> npublish > 0,
                             received |-> retained])
    /\ UNCHANGED <<map_file, pc, building, msg, err, map_msg,
                   get_building_map_srv, building_map_pub, retained, npublish,
                   responses>>

Next ==
    \/ LoadMap
    \/ BuildBegin
    \/ LevelStep
    \/ LiftStep
    \/ BuildReturn
    \/ CreateService
    \/ CreatePublisher
    \/ Publish
    \/ Fetch
    \/ Subscribe

Spec == Init /\ [][Next]_vars

\* ------------------------------------------------------ properties

\* the model's levels / lifts once loaded
ModelLevels == building[1].levels
ModelLifts == building[1].lifts

\* C1: the snapshot is completely built before the fetch service is
\* registered and before the publisher is created: whenever the service or
\* the publisher exists, map_msg holds the complete translation of the
\* building (every level and every lift), and the build phase is over.
C1_SnapshotBeforeChannels ==
    (get_building_map_srv \/ building_map_pub # <<>>) =>
        /\ map_msg # <<>>
        /\ pc \notin {"load", "build", "levels", "failed"}
        /\ Len(map_msg[1].levels) = Len(ModelLevels)
        /\ Len(map_msg[1].lifts) = Len(ModelLifts)
        /\ map_msg[1] = building_map_msg(building[1])

\* the service is registered, the publisher not yet, for a building with
\* two levels and a lift
C1_Witness ==
    /\ get_building_map_srv
    /\ building_map_pub = <<>>
    /\ Len(ModelLevels) = 2
    /\ Len(ModelLifts) >= 1

\* C2: the snapshot is published exactly once, on a keep-last depth-1
\* reliable transient-local channel; the retained sample stays the published
\* snapshot whatever fetches and subscriptions follow, and every consumer
\* that subscribes after the publish receives exactly that snapshot.
C2_RetainedBroadcast ==
    /\ npublish <= 1
    /\ pc = "spin" => npublish = 1
    /\ building_map_pub # <<>> =>
          /\ building_map_pub[1].history = "KEEP_LAST"
          /\ building_map_pub[1].depth = 1
          /\ building_map_pub[1].reliability = "RELIABLE"
          /\ building_map_pub[1].durability = "TRANSIENT_LOCAL"
    /\ npublish >= 1 => retained = map_msg
    /\ \A i \in 1..Len(subs) :
          subs[i].after_publish => subs[i].received = map_msg /\ map_msg # <<>>

\* a consumer subscribed after the publish and after a fetch, and a later
\* fetch followed
C2_Witness ==
    /\ npublish = 1
    /\ Len(responses) >= 1
    /\ \E i \in 1..Len(subs) :
          /\ subs[i].after_publish
          /\ subs[i].received = map_msg
          /\ Len(map_msg[1].levels) >= 1

\* C3: every response of get_building_map carries the snapshot built at
\* startup, equal in every field to the first response, whatever the request;
\* the held snapshot is still that snapshot after any number of fetches.
C3_IdempotentFetch ==
    \A i \in 1..Len(responses) :
        /\ responses[i].building_map = responses[1].building_map
        /\ responses[i].building_map = building_map_msg(building[1])
        /\ map_msg = <<building_map_msg(building[1])>>

\* two fetches answered for a building with a level and a lift
C3_Witness ==
    /\ Len(responses) >= 2
    /\ Len(responses[2].building_map.levels) >= 1
    /\ Len(responses[2].building_map.lifts) >= 1

\* a level that cannot be translated: unreadable image file, a door index
\* outside the vertex list, an unparsable motion_degrees, a missing parameter
DoorDefect(level, door) ==
    \/ ParamKeys \ DOMAIN door.params # {}
    \/ door.params.motion_degrees \notin {"90", "-45"}
    \/ \E idx \in {door.start_idx, door.end_idx} :
          idx >= Len(level.vertices) \/ idx < -Len(level.vertices)

LevelDefect(level) ==
    \/ level.drawing_name # <<>> /\ level.drawing_name \notin ReadableFiles
    \/ \E j \in 1..Len(level.doors) : DoorDefect(level, level.doors[j])

\* nothing of the server is visible to a consumer
NothingServed ==
    /\ map_msg = <<>>
    /\ ~get_building_map_srv
    /\ building_map_pub = <<>>
    /\ npublish = 0
    /\ retained = <<>>
    /\ responses = <<>>
    /\ \A i \in 1..Len(subs) : subs[i].received = <<>>

\* C4: when translation fails the whole build aborts: a level that cannot be
\* translated never enters the message and the build never gets past it;
\* after the failure no snapshot is held, no service is registered, nothing
\* is published, and the server stays failed.
C4_BuildAborts ==
    /\ [](pc = "failed" => NothingServed)
    /\ [](building # <<>> =>
            \A i \in 1..Len(ModelLevels) :
                LevelDefect(ModelLevels[i]) =>
                    /\ Len(msg.levels) < i
                    /\ pc \in {"build", "levels", "failed"})
    /\ [][pc = "failed" => pc' = "failed" /\ NothingServed']_vars

\* the build failed on a door index after one level was translated, and a
\* consumer had subscribed
C4_Witness ==
    /\ pc = "failed"
    /\ err = "IndexError"
    /\ Len(msg.levels) = 1
    /\ Len(subs) >= 1

\* a door of the level names a vertex index >= the number of vertices
HighIndex(level) ==
    \E j \in 1..Len(level.doors) :
        \/ level.doors[j].start_idx >= Len(level.vertices)
        \/ level.doors[j].end_idx >= Len(level.vertices)

\* C5: a level with a door whose start or end index is >= the number of
\* vertices of the level is never translated (no clamping, no skipping of the
\* door): the message never holds that level and no snapshot is ever held.
C5_FatalOnBadIndex ==
    building # <<>> =>
        \A i \in 1..Len(ModelLevels) :
            HighIndex(ModelLevels[i]) =>
                /\ Len(msg.levels) < i
                /\ map_msg = <<>>
                /\ pc \in {"build", "levels", "failed"}

\* the build failed with IndexError on a level with vertices whose only
\* door ends exactly one past the last vertex
C5_Witness ==
    /\ pc = "failed"
    /\ err = "IndexError"
    /\ LET level == ModelLevels[Len(msg.levels) + 1]
       IN /\ Len(level.vertices) >= 1
          /\ Len(level.doors) = 1
          /\ level.doors[1].start_idx = 0
          /\ level.doors[1].end_idx = Len(level.vertices)

\* the documented table of door types
DoorTypeTable(t) ==
    CASE t = "sliding" -> "DOOR_TYPE_SINGLE_SLIDING"
      [] t = "hinged" -> "DOOR_TYPE_SINGLE_SWING"
      [] t = "double_sliding" -> "DOOR_TYPE_DOUBLE_SLIDING"
      [] t = "double_hinged" -> "DOOR_TYPE_DOUBLE_SWING"
      [] OTHER -> "DOOR_TYPE_UNDEFINED"

\* C6: every translated door's door_type is given by the table from its
\* source type string, any other string giving undefined; every door of a
\* translated level is in the message; and a build that fails does so on a
\* level with a defect, never on a door's type string.
C6_DoorTypeMapping ==
    building # <<>> =>
        /\ \A i \in 1..Len(msg.levels) :
              /\ Len(msg.levels[i].doors) = Len(ModelLevels[i].doors)
              /\ \A j \in 1..Len(msg.levels[i].doors) :
                    msg.levels[i].doors[j].door_type =
                        DoorTypeTable(ModelLevels[i].doors[j].params.type)
        /\ pc = "failed" => LevelDefect(ModelLevels[Len(msg.levels) + 1])

\* a snapshot is held whose level has a door of an unrecognized type next to
\* a door of a recognized one
C6_Witness ==
    /\ map_msg # <<>>
    /\ \E i \in 1..Len(ModelLevels) :
          /\ Len(ModelLevels[i].doors) = 2
          /\ ModelLevels[i].doors[1].params.type = "sliding"
          /\ ModelLevels[i].doors[2].params.type = "foo"
          /\ map_msg[1].levels[i].doors[2].door_type = "DOOR_TYPE_UNDEFINED"

GraphNames == <<"0", "1", "2", "3", "4", "5", "6", "7", "8">>

\* the entries of a level message named after graph index k
EntriesNamed(level_out, k) ==
    { n \in 1..Len(level_out.nav_graphs) :
        level_out.nav_graphs[n].name = GraphNames[k + 1] }

\* C7: for every translated level and every k in 0..8: no lanes at k, no
\* entry named str(k); lanes at k, exactly one entry named str(k) whose edges
\* are the lanes in order, bidirectional iff the lane is. No entry has an
\* empty edge list or a name outside "0".."8".
C7_GraphSparsity ==
    building # <<>> =>
        \A i \in 1..Len(msg.levels) :
            /\ \A k \in 0..8 :
                  LET lanes == ModelLevels[i].nav_graphs[k].lanes
                      entries == EntriesNamed(msg.levels[i], k)
                  IN IF lanes = <<>>
                     THEN entries = {}
                     ELSE /\ Cardinality(entries) = 1
                          /\ \A n \in entries :
                                LET edges == msg.levels[i].nav_graphs[n].edges
                                IN /\ Len(edges) = Len(lanes)
                                   /\ \A m \in 1..Len(edges) :
                                         /\ edges[m].v1_idx = lanes[m][1]
                                         /\ edges[m].v2_idx = lanes[m][2]
                                         /\ (edges[m].edge_type = "EDGE_TYPE_BIDIRECTIONAL")
                                               <=> lanes[m][3].is_bidirectional
                                         /\ edges[m].edge_type \in
                                               {"EDGE_TYPE_BIDIRECTIONAL",
                                                "EDGE_TYPE_UNIDIRECTIONAL"}
            /\ \A n \in 1..Len(msg.levels[i].nav_graphs) :
                  /\ msg.levels[i].nav_graphs[n].edges # <<>>
                  /\ \E k \in 0..8 : msg.levels[i].nav_graphs[n].name = GraphNames[k + 1]

\* a snapshot is held whose level has lanes at two indices only, one of them
\* 8, with a unidirectional lane
C7_Witness ==
    /\ map_msg # <<>>
    /\ \E i \in 1..Len(ModelLevels) :
          /\ Len(map_msg[1].levels[i].nav_graphs) = 2
          /\ ModelLevels[i].nav_graphs[0].lanes = <<>>
          /\ ModelLevels[i].nav_graphs[8].lanes # <<>>
          /\ ~ModelLevels[i].nav_graphs[8].lanes[1][3].is_bidirectional

LowerChar(c) ==
    CASE c = "P" -> "p" [] c = "N" -> "n" [] c = "G" -> "g" [] OTHER -> c

Lower(s) == [i \in 1..Len(s) |-> LowerChar(s[i])]

\* the part of a filename after its last '.', the whole of it without one
AfterLastDot(s) ==
    LET dots == { i \in 1..Len(s) : s[i] = "." }
    IN IF dots = {}
       THEN s
       ELSE LET last == CHOOSE i \in dots : \A j \in dots : j <= i
            IN SubSeq(s, last + 1, Len(s))

\* C8 as stated: zero image entries without a floor-plan reference, exactly
\* one with it, whose encoding is the lowercase substring after the last '.'.
C8_LowercaseEncoding ==
    building # <<>> =>
        \A i \in 1..Len(msg.levels) :
            IF ModelLevels[i].drawing_name = <<>>
            THEN msg.levels[i].images = <<>>
            ELSE /\ Len(msg.levels[i].images) = 1
                 /\ msg.levels[i].images[1].encoding =
                       Lower(AfterLastDot(ModelLevels[i].drawing_name))

\* C8 amended: zero image entries without a floor-plan reference, exactly one
\* with it, whose encoding is the substring after the last '.' of the
\* filename as written, case unchanged (the whole filename when it has no '.').
C8_LiteralEncoding ==
    building # <<>> =>
        \A i \in 1..Len(msg.levels) :
            IF ModelLevels[i].drawing_name = <<>>
            THEN msg.levels[i].images = <<>>
            ELSE /\ Len(msg.levels[i].images) = 1
                 /\ msg.levels[i].images[1].encoding =
                       AfterLastDot(ModelLevels[i].drawing_name)

\* a snapshot is held whose level's image encoding is the upper-case suffix
C8_Witness ==
    /\ map_msg # <<>>
    /\ \E i \in 1..Len(ModelLevels) :
          /\ ModelLevels[i].drawing_name = <<"f", ".", "P", "N", "G">>
          /\ map_msg[1].levels[i].images[1].encoding = <<"P", "N", "G">>

\* C9: the levels and lifts of the snapshot are those of the model, same
\* number and same order: the i-th entry is the translation of the i-th
\* model entry; while building, the message holds a prefix in model order.
C9_OrderPreserved ==
    building # <<>> =>
        /\ Len(msg.levels) <= Len(ModelLevels)
        /\ Len(msg.lifts) <= Len(ModelLifts)
        /\ \A i \in 1..Len(msg.levels) :
              /\ msg.levels[i].name = ModelLevels[i].name
              /\ msg.levels[i].elevation = ModelLevels[i].elevation
        /\ \A i \in 1..Len(msg.lifts) : msg.lifts[i].name = ModelLifts[i].name
        /\ map_msg # <<>> =>
              /\ map_msg[1] = msg
              /\ Len(msg.levels) = Len(ModelLevels)
              /\ Len(msg.lifts) = Len(ModelLifts)

\* a snapshot of two levels and two lifts is held
C9_Witness ==
    /\ map_msg # <<>>
    /\ Len(map_msg[1].levels) = 2
    /\ Len(map_msg[1].lifts) = 2
    /\ map_msg[1].levels[1].name # map_msg[1].levels[2].name

\* a door of the level has a negative start or end index
NegativeIndex(level) ==
    \E j \in 1..Len(level.doors) :
        level.doors[j].start_idx < 0 \/ level.doors[j].end_idx < 0

\* C10: a level with a door whose start or end index is negative is never
\* translated: the build fails instead of taking another vertex's coordinates.
C10_NegativeIndexFatal ==
    building # <<>> =>
        \A i \in 1..Len(ModelLevels) :
            NegativeIndex(ModelLevels[i]) => Len(msg.levels) < i

====
